---- MODULE Spec2Model ----
(***************************************************************************)
(* A model of codeask's conversation manager (ConversationManager.ask,     *)
(* src/src/conversation_manager.py) and of the agent tool-calling loop it  *)
(* wraps (ask and _stream_with_retry, src/src/agent.py).                   *)
(*                                                                         *)
(* Every asyncio task that runs ConversationManager.ask is a process of    *)
(* the model.  A process moves from one await of the code to the next in   *)
(* one step: the code between two awaits runs without interruption on the  *)
(* event loop, and so does an action here.                                 *)
(***************************************************************************)
EXTENDS Integers, Sequences, FiniteSets, TLC

(***************************************************************************)
(* Bounds of the model.                                                    *)
(***************************************************************************)
\* the clock stops at MaxTime
MaxTime == 2
\* largest max_iterations setting explored
MaxIterations == 2
\* largest max_history_messages setting explored
MaxCap == 4
\* the size a tool-result text is held against, in characters
MaxToolResultSize == 30
\* conversation_ttl and response_cache_ttl of the explored settings
ConversationTtl == 1
ResponseCacheTtl == 1

(***************************************************************************)
(* Program constants.                                                      *)
(***************************************************************************)
MAX_RETRIES == 5
\* the delay of a retry when the provider names none, in seconds
DefaultWait == 30
\* "if remaining <= 5" of the budget warning
WarnThreshold == 5

None == "None"

(***************************************************************************)
(* Strings are sequences of characters, so that strip() and lower() are    *)
(* computed and not assumed.                                               *)
(***************************************************************************)
Lower(s) == [i \in DOMAIN s |-> IF s[i] = "A" THEN "a" ELSE IF s[i] = "B" THEN "b" ELSE s[i]]

RECURSIVE LStrip(_)
LStrip(s) == IF s # <<>> /\ Head(s) = " " THEN LStrip(Tail(s)) ELSE s

RECURSIVE RStrip(_)
RStrip(s) == IF s # <<>> /\ s[Len(s)] = " " THEN RStrip(SubSeq(s, 1, Len(s) - 1)) ELSE s

Strip(s) == RStrip(LStrip(s))

\* for comparison: a key that keeps the case of the question
CacheKeyNoFold(q) == Strip(q)
\* cache_key = question.strip().lower()
CacheKey(q) == Lower(Strip(q))

\* the questions the callers ask; main.py rejects a question that is blank
Questions == { <<"a">>, <<" ", "A">>, <<"b">> }
Keys == { CacheKey(q) : q \in Questions }

(***************************************************************************)
(* Messages.  A message is a role and a content; the content is a string   *)
(* (the question, the answer-now instruction) or a list of blocks.         *)
(***************************************************************************)
StrMsg(role, s) == [role |-> role, kind |-> "str", content |-> s]
ListMsg(role, blocks) == [role |-> role, kind |-> "list", content |-> blocks]

TextBlock(t) == [type |-> "text", text |-> t]
ToolUse(id, name) == [type |-> "tool_use", id |-> id, name |-> name]
ToolResult(id, text, warn) == [type |-> "tool_result", tool_use_id |-> id, content |-> text, warning |-> warn]

QuestionMsg(q) == StrMsg("user", q)
\* the "[SYSTEM: You have used all your tool calls ...]" message
AnswerNowMsg == StrMsg("user", <<"!">>)

\* for comparison: a _has_tool_use that sees no tool_use block
HasToolUseNever(m) == FALSE
\* ConversationManager._has_tool_use
HasToolUse(m) ==
    IF m.kind # "list" THEN FALSE
    ELSE \E i \in DOMAIN m.content : m.content[i].type = "tool_use"

\* for comparison: a validation that accepts every history
ValidateHistoryAlways(messages) == TRUE
\* ConversationManager._validate_history
ValidateHistory(messages) ==
    IF messages = <<>> THEN TRUE
    ELSE IF messages[1].role # "user" THEN FALSE
    ELSE \A i \in 2..Len(messages) :
            messages[i].role = (IF (i - 1) % 2 = 1 THEN "assistant" ELSE "user")

\* Python's seq[from:] for from >= 0
SliceFrom(s, from) == IF from >= Len(s) THEN <<>> ELSE SubSeq(s, from + 1, Len(s))
\* Python's seq[:to] for to >= 0
SliceTo(s, to) == IF to >= Len(s) THEN s ELSE SubSeq(s, 1, to)

\* the number of messages the truncation drops after the first one
Trimmed(n, cap) == LET t == n - cap IN t + (t % 2)

\* for comparison: a truncation without the rounding up to an even count
TruncateNoRounding(messages, cap) ==
    IF Len(messages) > cap
    THEN SliceTo(messages, 1) \o SliceFrom(messages, 1 + (Len(messages) - cap))
    ELSE messages
\* "Truncate history": lines 136-139 of ConversationManager.ask
Truncate(messages, cap) ==
    IF Len(messages) > cap
    THEN SliceTo(messages, 1) \o SliceFrom(messages, 1 + Trimmed(Len(messages), cap))
    ELSE messages

\* "while len(messages) > 1 and messages[-1].get("role") == "user": messages.pop()"
RECURSIVE PopTrailingUsers(_)
PopTrailingUsers(messages) ==
    IF Len(messages) > 1 /\ messages[Len(messages)].role = "user"
    THEN PopTrailingUsers(SubSeq(messages, 1, Len(messages) - 1))
    ELSE messages

\* for comparison: a repair that leaves the history as the failed run left it
RepairNothing(messages) == messages
\* the repair of the except branch of ConversationManager.ask
Repair(messages) ==
    LET m == PopTrailingUsers(messages) IN
    IF Len(m) > 1 /\ m[Len(m)].role = "assistant" /\ HasToolUse(m[Len(m)])
    THEN SubSeq(m, 1, Len(m) - 1)
    ELSE m

(***************************************************************************)
(* The tools a model response may name, and what the provider knows.       *)
(***************************************************************************)
\* _OVERVIEW_TOOL_NAME
OverviewTool == "get_repo_overview"
\* MCPManager._tool_map: every discovered tool, the hidden ones included
ToolMap == { "mcp__serena__read_file", "mcp__serena__onboarding" }
\* for comparison: a manager that takes every name for one of its tools
IsMcpToolAny(name) == TRUE
\* MCPManager.is_mcp_tool
IsMcpTool(name) == name \in ToolMap

\* MCPManager.get_overview: the overview computed at start-up, or the empty
\* text when there is none; it awaits nothing and raises nothing
GetOverview(available) == IF available THEN "overview" ELSE ""

\* the contents of the responses that ask for tools (response.content)
ToolTurnContents ==
    { << ToolUse("A", OverviewTool) >>,
      << TextBlock("t"), ToolUse("C", "mcp__serena__read_file"), ToolUse("A", "bogus"),
         ToolUse("B", "mcp__serena__onboarding") >> }

\* the texts of a final answer
Answers == { "x", "y" }

Response(stop, content) == [stop_reason |-> stop, content |-> content]
\* what the model may answer when tools are offered
ToolResponses ==
    { Response("end_turn", << TextBlock(t) >>) : t \in Answers }
    \cup { Response("tool_use", c) : c \in ToolTurnContents }
    \cup { Response("max_tokens", << TextBlock("t") >>) }
    \cup { Response("end_turn", << TextBlock("x"), TextBlock("y") >>) }
\* what the model may answer to the forced call, which offers no tools
FinalResponses == { Response("end_turn", << TextBlock(t) >>) : t \in Answers }
NoResponse == Response("none", <<>>)

\* answer = "\n".join(block.text for block in response.content if block.type == "text")
RECURSIVE AnswerOf(_)
AnswerOf(content) ==
    IF content = <<>> THEN <<>>
    ELSE (IF Head(content).type = "text" THEN << Head(content).text >> ELSE <<>>)
         \o AnswerOf(Tail(content))

\* for comparison: a loop that goes to the last tool_use block at once
NextToolUseLast(content, i) ==
    LET later == { j \in DOMAIN content : j > i /\ content[j].type = "tool_use" }
    IN IF later = {} THEN 0 ELSE CHOOSE j \in later : \A k \in later : j >= k
\* the index of the first tool_use block after index i, 0 when there is none
NextToolUse(content, i) ==
    LET later == { j \in DOMAIN content : j > i /\ content[j].type = "tool_use" }
    IN IF later = {} THEN 0 ELSE CHOOSE j \in later : \A k \in later : j <= k

\* the tool_use ids of a content, in order
RECURSIVE ToolUseIds(_)
ToolUseIds(content) ==
    IF content = <<>> THEN <<>>
    ELSE (IF Head(content).type = "tool_use" THEN << Head(content).id >> ELSE <<>>)
         \o ToolUseIds(Tail(content))

(***************************************************************************)
(* The quota headers of a successful response (_check_rate_limits).  A     *)
(* header set gives, per kind, remaining, limit and the seconds until the  *)
(* reset; Missing stands for an absent header.                             *)
(***************************************************************************)
Missing == -1
Quota(rem, lim, reset) == [remaining |-> rem, limit |-> lim, reset |-> reset]
HeaderCases ==
    { [tokens |-> Quota(Missing, Missing, Missing), requests |-> Quota(Missing, Missing, Missing)],
      [tokens |-> Quota(50, 100, 2), requests |-> Quota(1, 10, 1)],
      [tokens |-> Quota(20, 100, 2), requests |-> Quota(3, 10, 1)],
      [tokens |-> Quota(50, 100, 2), requests |-> Quota(0, 10, 1)] }

NoHeaders == [tokens |-> Quota(Missing, Missing, Missing), requests |-> Quota(Missing, Missing, Missing)]

\* the wait one kind asks for
QuotaWait(q, isTokens) ==
    IF q.remaining # Missing /\ q.reset # Missing
    THEN LET lim == IF q.limit # Missing THEN q.limit ELSE 1
             threshold == IF isTokens THEN (lim * 2) \div 10 ELSE 0
         IN IF q.remaining <= threshold THEN q.reset ELSE 0
    ELSE 0

\* max_wait of _check_rate_limits
CheckRateLimits(h) ==
    LET t == QuotaWait(h.tokens, TRUE)
        r == QuotaWait(h.requests, FALSE)
    IN IF r > t THEN r ELSE t

(***************************************************************************)
(* The state.                                                              *)
(***************************************************************************)
\* the asyncio tasks that call ConversationManager.ask
Procs == { 1, 2, 3 }
\* the conversation ids the front ends use
ConvIds == { "c1" }
\* the list objects: every stored history and every running ask holds one
ListIds == 1..(Cardinality(ConvIds) + Cardinality(Procs))
NoList == 0
Absent == -1
\* a key the response cache does not hold
NoEntry == [answer |-> <<>>, ts |-> Absent]

VARIABLES
    settings,        \* get_settings(): the resolved configuration
    now,             \* time.monotonic()
    heap,            \* the list objects: ListIds -> sequence of messages
    histories,       \* ConversationManager._histories: conversation id -> list object
    last_access,     \* ConversationManager._last_access
    response_cache,  \* ConversationManager._response_cache: key -> (answer, timestamp)
    sem_value,       \* asyncio.Semaphore._value of ConversationManager._semaphore
    waiters,         \* asyncio.Semaphore._waiters, in arrival order
    woken,           \* the waiters whose future has a result and that did not resume yet
    pc,              \* where each task stands
    req,             \* the arguments and locals of ConversationManager.ask
    run,             \* the locals of agent.ask and of _stream_with_retry
    result,          \* what the last ask of each task gave its caller
    last,            \* the ask that finished last, when it had no conversation id and its agent run returned
    outcome          \* per conversation: how the last ask on it that ran the agent ended

mgrVars == << heap, histories, last_access, response_cache >>
semVars == << sem_value, waiters, woken >>
vars == << settings, now, heap, histories, last_access, response_cache,
           sem_value, waiters, woken, pc, req, run, result, last, outcome >>

\* a task that is not inside ConversationManager.ask
Idle == { "idle", "returned", "raised", "cancelled" }
\* a task suspended in the agent run, holding an admission slot
Running == { "call", "backoff", "quota", "flush", "step", "tool" }

\* validated and handed are the messages after the validation (line 132) and
\* after the truncation (line 141); after is the outcome of the conversation's
\* previous ask
NoReq == [question |-> <<>>, conversation_id |-> None, is_followup |-> FALSE,
          cache_key |-> <<>>, messages |-> NoList, validated |-> <<>>, handed |-> <<>>,
          after |-> "none"]
NoRun == [step |-> 0, final |-> FALSE, attempt |-> 0, fails |-> 0, sleeps |-> 0,
          pauses |-> 0, response |-> NoResponse, block |-> 0, tool_results |-> <<>>,
          tool_turns |-> 0, tool_calls |-> 0, final_calls |-> 0,
          returned |-> FALSE, error |-> "none", steps |-> <<>>, surfaced |-> <<>>,
          hint |-> -1, wait |-> 0, demand |-> 0, text_chunks |-> <<>>]
NoLast == [question |-> <<>>, answer |-> <<>>, at |-> 0]
\* after: on a cache hit, the ask that had finished last before this one
NoResult == [status |-> "none", answer |-> <<>>, cached |-> FALSE, after |-> NoLast]

Setting(iters, conc, cap) ==
    [max_iterations |-> iters, max_concurrency |-> conc, max_history_messages |-> cap,
     conversation_ttl |-> ConversationTtl, response_cache_ttl |-> ResponseCacheTtl]

\* the list objects something still refers to
Referenced(hist, rq, pcs) ==
    { hist[c] : c \in ConvIds } \cup { rq[p].messages : p \in { r \in Procs : pcs[r] \notin Idle } }

\* list objects nothing refers to are freed
Collect(h, hist, rq, pcs) ==
    [l \in ListIds |-> IF l \in Referenced(hist, rq, pcs) THEN h[l] ELSE <<>>]

\* a list object nothing refers to
FreshList(hist) ==
    LET free == ListIds \ Referenced(hist, req, pc)
    IN CHOOSE l \in free : \A k \in free : l <= k

(***************************************************************************)
(* asyncio.Semaphore, as ConversationManager uses it ("async with          *)
(* self._semaphore"): a value and a queue of waiters served in arrival     *)
(* order.  A cancelled waiter leaves the queue at once.                    *)
(***************************************************************************)
\* for comparison: a semaphore that admits everybody
LockedNever(value, w) == FALSE
\* Semaphore.locked()
Locked(value, w) == value = 0 \/ w # <<>>

Sem(value, w, wk) == [value |-> value, waiters |-> w, woken |-> wk]

\* for comparison: a semaphore that wakes the waiter that came last
WakeUpLast(s) ==
    LET idx == { i \in DOMAIN s.waiters : s.waiters[i] \notin s.woken }
    IN IF idx = {} THEN s
       ELSE LET i == CHOOSE i \in idx : \A j \in idx : i >= j
            IN Sem(s.value - 1, s.waiters, s.woken \cup { s.waiters[i] })
\* Semaphore._wake_up_next(): the first waiter not woken yet takes a slot
WakeUpNext(s) ==
    LET idx == { i \in DOMAIN s.waiters : s.waiters[i] \notin s.woken }
    IN IF idx = {} THEN s
       ELSE LET i == CHOOSE i \in idx : \A j \in idx : i <= j
            IN Sem(s.value - 1, s.waiters, s.woken \cup { s.waiters[i] })

\* "while self._value > 0: if not self._wake_up_next(): break"
RECURSIVE WakeUpAll(_)
WakeUpAll(s) ==
    IF s.value > 0 /\ WakeUpNext(s) # s THEN WakeUpAll(WakeUpNext(s)) ELSE s

\* for comparison: an exit that keeps the slot
ReleaseLeaks(s) == s
\* Semaphore.release(), the exit of "async with self._semaphore"
Release(s) == WakeUpNext(Sem(s.value + 1, s.waiters, s.woken))

\* the queue without one waiter
Without(w, p) == SelectSeq(w, LAMBDA x : x # p)

CurrentSem == Sem(sem_value, waiters, woken)

(***************************************************************************)
(* The agent loop's control (agent.ask).                                   *)
(***************************************************************************)
\* for comparison: a loop with one iteration more
LoopRunsOneMore(step, iters) == step <= iters
\* "for step in range(max_iterations)": whether iteration number step runs
LoopRuns(step, iters) == step < iters

\* the locals of agent.ask when it reaches its first model call
AgentStart(iters) == [NoRun EXCEPT !.final = ~LoopRuns(0, iters)]

\* the messages when agent.ask reaches its first model call: with no
\* iteration to run, the answer-now instruction is appended at once
MessagesAtStart(messages, iters) ==
    IF LoopRuns(0, iters) THEN messages ELSE Append(messages, AnswerNowMsg)

(***************************************************************************)
(* ConversationManager.ask up to its first await: the sweep, the cache     *)
(* lookup, the history (resolved, validated, truncated) and the admission. *)
(***************************************************************************)
\* _cleanup_expired: the conversations past their TTL
ExpiredConversations ==
    { cid \in ConvIds : last_access[cid] # Absent
                        /\ now - last_access[cid] > settings.conversation_ttl }
\* _cleanup_expired: the cache entries past their TTL
ExpiredCache ==
    { k \in Keys : response_cache[k] # NoEntry
                   /\ now - response_cache[k].ts > settings.response_cache_ttl }

\* what last remembers of an ask whose agent run ends now: its question and
\* its answer when it had no conversation id and returned an answer, and
\* nothing otherwise
Finished(c, q, ok, answer) ==
    IF c = None /\ ok THEN [question |-> q, answer |-> answer, at |-> now] ELSE NoLast

Outcome(status, answer) == [status |-> status, answer |-> answer, cached |-> FALSE, after |-> NoLast]

\* for comparison: an ask that records the conversation before the cache lookup
AfterLookupRecorded(swept, recorded, hit) == recorded
\* a map of the manager when the cache lookup of an ask is over: "return
\* cached" comes before the conversation and its access time are recorded
AfterLookup(swept, recorded, hit) == IF hit THEN swept ELSE recorded

Ask(p, q, c) ==
    /\ pc[p] \in Idle
    /\ LET hist1 == [cid \in ConvIds |-> IF cid \in ExpiredConversations THEN NoList ELSE histories[cid]]
           la1 == [cid \in ConvIds |-> IF cid \in ExpiredConversations THEN Absent ELSE last_access[cid]]
           cache1 == [k \in Keys |-> IF k \in ExpiredCache THEN NoEntry ELSE response_cache[k]]
           \* "del self._histories[cid]" of a conversation that has no history
           keyError == \E cid \in ExpiredConversations : histories[cid] = NoList
           is_followup == c # None /\ hist1[c] # NoList
           key == CacheKey(q)
           hit == /\ ~is_followup
                  /\ cache1[key] # NoEntry
                  /\ now - cache1[key].ts <= settings.response_cache_ttl
           lst == IF is_followup THEN hist1[c] ELSE FreshList(hist1)
           m0 == IF is_followup THEN Append(heap[lst], QuestionMsg(q)) ELSE << QuestionMsg(q) >>
           hist2 == IF c # None THEN [hist1 EXCEPT ![c] = lst] ELSE hist1
           la2 == IF c # None THEN [la1 EXCEPT ![c] = now] ELSE la1
           m1 == IF ValidateHistory(m0) THEN m0 ELSE << QuestionMsg(q) >>
           m2 == Truncate(m1, settings.max_history_messages)
           admitted == ~Locked(sem_value, waiters)
           out1 == [cid \in ConvIds |-> IF cid \in ExpiredConversations THEN "none" ELSE outcome[cid]]
           req1 == [question |-> q, conversation_id |-> c, is_followup |-> is_followup,
                    cache_key |-> key, messages |-> lst, validated |-> m1, handed |-> m2,
                    after |-> IF c # None THEN out1[c] ELSE "none"]
       IN
       IF keyError THEN
            /\ pc' = [pc EXCEPT ![p] = "raised"]
            /\ result' = [result EXCEPT ![p] = Outcome("KeyError", <<>>)]
            /\ req' = [req EXCEPT ![p] = [NoReq EXCEPT !.question = q, !.conversation_id = c]]
            /\ run' = [run EXCEPT ![p] = NoRun]
            /\ last' = NoLast
            /\ UNCHANGED << heap, histories, last_access, response_cache, sem_value, waiters, woken, outcome >>
       ELSE IF hit THEN
            /\ pc' = [pc EXCEPT ![p] = "returned"]
            /\ result' = [result EXCEPT ![p] = [status |-> "answer", answer |-> cache1[key].answer,
                                                cached |-> TRUE, after |-> last]]
            /\ req' = [req EXCEPT ![p] = [NoReq EXCEPT !.question = q, !.conversation_id = c,
                                                       !.cache_key = key]]
            /\ run' = [run EXCEPT ![p] = NoRun]
            /\ last' = NoLast
            /\ outcome' = out1
            /\ histories' = AfterLookup(hist1, hist2, hit)
            /\ last_access' = AfterLookup(la1, la2, hit)
            /\ response_cache' = cache1
            /\ heap' = Collect(heap, histories', req', pc')
            /\ UNCHANGED << sem_value, waiters, woken >>
       ELSE
            /\ pc' = [pc EXCEPT ![p] = IF admitted THEN "call" ELSE "wait"]
            /\ result' = [result EXCEPT ![p] = NoResult]
            /\ req' = [req EXCEPT ![p] = req1]
            /\ run' = [run EXCEPT ![p] = IF admitted THEN AgentStart(settings.max_iterations) ELSE NoRun]
            /\ histories' = AfterLookup(hist1, hist2, hit)
            /\ last_access' = AfterLookup(la1, la2, hit)
            /\ response_cache' = cache1
            /\ heap' = Collect([heap EXCEPT ![lst] =
                                  IF admitted THEN MessagesAtStart(m2, settings.max_iterations) ELSE m2],
                               hist2, req', pc')
            /\ sem_value' = IF admitted THEN sem_value - 1 ELSE sem_value
            /\ waiters' = IF admitted THEN waiters ELSE Append(waiters, p)
            /\ outcome' = out1
            /\ UNCHANGED << woken, last >>
    /\ UNCHANGED << settings, now >>

\* the woken waiter resumes inside Semaphore.acquire() and enters the agent loop
Resume(p) ==
    /\ pc[p] = "wait"
    /\ p \in woken
    /\ LET s == WakeUpAll(Sem(sem_value, Without(waiters, p), woken \ { p }))
       IN /\ sem_value' = s.value
          /\ waiters' = s.waiters
          /\ woken' = s.woken
    /\ pc' = [pc EXCEPT ![p] = "call"]
    /\ run' = [run EXCEPT ![p] = AgentStart(settings.max_iterations)]
    /\ heap' = [heap EXCEPT ![req[p].messages] = MessagesAtStart(@, settings.max_iterations)]
    /\ UNCHANGED << settings, now, histories, last_access, response_cache, req, result, last, outcome >>

\* time.monotonic() moves on, up to a limit
TickUntil(limit) ==
    /\ now < limit
    /\ now' = now + 1
    /\ UNCHANGED << settings, heap, histories, last_access, response_cache,
                    sem_value, waiters, woken, pc, req, run, result, last, outcome >>

\* time passes
Tick == TickUntil(MaxTime)

(***************************************************************************)
(* The ways out of ConversationManager.ask once the agent run was          *)
(* admitted.  rn is the task's run record at that moment.                  *)
(***************************************************************************)
\* the locals of _stream_with_retry are gone once agent.ask has moved on
\* from the call that returned
Forget(rn) == [rn EXCEPT !.attempt = 0, !.fails = 0, !.sleeps = 0, !.pauses = 0,
                         !.returned = FALSE, !.error = "none",
                         !.hint = NoRun.hint, !.wait = 0, !.demand = 0]

\* what is left of the run once it raised: the attempts, failures and sleeps
\* of the call it was in, and the error of its last attempt
Raised(rn) == [NoRun EXCEPT !.attempt = rn.attempt, !.fails = rn.fails, !.sleeps = rn.sleeps,
                            !.pauses = rn.pauses, !.error = rn.error]

Leave(p, rn, status, how, sem) ==
    /\ pc' = [pc EXCEPT ![p] = status]
    /\ result' = [result EXCEPT ![p] = how]
    /\ run' = [run EXCEPT ![p] = IF status = "returned"
                                THEN [Forget(rn) EXCEPT !.tool_results = <<>>, !.block = 0,
                                                        !.steps = <<>>, !.surfaced = <<>>,
                                                        !.text_chunks = <<>>]
                                ELSE IF status = "raised" THEN Raised(rn)
                                ELSE NoRun]
    /\ req' = [req EXCEPT ![p] = [NoReq EXCEPT !.question = req[p].question,
                                               !.conversation_id = req[p].conversation_id,
                                               !.is_followup = req[p].is_followup,
                                               !.cache_key = req[p].cache_key]]
    /\ last' = Finished(req[p].conversation_id, req[p].question, how.status = "answer", how.answer)
    /\ outcome' = IF req[p].conversation_id # None
                  THEN [outcome EXCEPT ![req[p].conversation_id] = status]
                  ELSE outcome
    /\ sem_value' = sem.value
    /\ waiters' = sem.waiters
    /\ woken' = sem.woken
    /\ UNCHANGED << settings, now, histories >>

\* for comparison: a cache that keeps the entry it has
CachePutOnce(cache, key, answer) ==
    IF cache[key] # NoEntry THEN cache
    ELSE [cache EXCEPT ![key] = [answer |-> answer, ts |-> now]]
\* "self._response_cache[cache_key] = (result["answer"], time.monotonic())"
CachePut(cache, key, answer) ==
    [cache EXCEPT ![key] = [answer |-> answer, ts |-> now]]

\* agent.ask returned: the slot is released, the answer of a question that
\* was not a follow-up is cached and the last access is refreshed
Succeed(p, rn, messages, answer) ==
    /\ Leave(p, rn, "returned", Outcome("answer", answer),
             Release(CurrentSem))
    /\ heap' = Collect([heap EXCEPT ![req[p].messages] = messages], histories, req', pc')
    /\ response_cache' = IF ~req[p].is_followup
                         THEN CachePut(response_cache, req[p].cache_key, answer)
                         ELSE response_cache
    /\ last_access' = IF req[p].conversation_id # None
                      THEN [last_access EXCEPT ![req[p].conversation_id] = now]
                      ELSE last_access

\* agent.ask raised an Exception: the history is repaired in place, the slot
\* is released and the exception goes on to the caller
Raise(p, rn, error) ==
    /\ Leave(p, rn, "raised", Outcome(error, <<>>),
             Release(CurrentSem))
    /\ heap' = Collect([heap EXCEPT ![req[p].messages] = Repair(@)], histories, req', pc')
    /\ UNCHANGED << response_cache, last_access >>

(***************************************************************************)
(* agent.ask between two awaits.                                           *)
(***************************************************************************)
Goto(p, rn, where) ==
    /\ pc' = [pc EXCEPT ![p] = where]
    /\ run' = [run EXCEPT ![p] = rn]
    /\ UNCHANGED << settings, now, histories, last_access, response_cache,
                    sem_value, waiters, woken, req, result, last, outcome >>


\* for comparison: a warning on every turn, however many steps remain
WithWarningAlways(results, remaining) ==
    IF results # <<>>
    THEN [results EXCEPT ![Len(results)].warning = remaining - 1]
    ELSE results
\* the budget warning goes on the last tool result when few steps remain
WithWarning(results, remaining) ==
    IF remaining <= WarnThreshold /\ results # <<>>
    THEN [results EXCEPT ![Len(results)].warning = remaining - 1]
    ELSE results

\* the end of one iteration of the loop: the assistant turn and the tool
\* results are appended; then the next model call, or the forced final one
EndToolTurn(p, rn) ==
    LET remaining == settings.max_iterations - rn.step
        appended == heap[req[p].messages]
                    \o << ListMsg("assistant", rn.response.content),
                          ListMsg("user", WithWarning(rn.tool_results, remaining)) >>
        more == LoopRuns(rn.step + 1, settings.max_iterations)
        rn1 == [rn EXCEPT !.step = rn.step + 1, !.tool_turns = rn.tool_turns + 1,
                                   !.block = 0, !.final = ~more]
    IN /\ Goto(p, rn1, "call")
       /\ heap' = [heap EXCEPT ![req[p].messages] =
                      IF more THEN appended ELSE Append(appended, AnswerNowMsg)]

\* for comparison: results gathered in reverse order
AddResultInFront(results, r) == << r >> \o results
\* tool_results.append(...)
AddResult(results, r) == Append(results, r)

\* the "__"-separated parts of the tool names in use
Parts(name) ==
    CASE name = "mcp__serena__read_file" -> << "mcp", "serena", "read_file" >>
      [] name = "mcp__serena__onboarding" -> << "mcp", "serena", "onboarding" >>
      [] OTHER -> << name >>
\* short = namespaced_name.rsplit("__", 1)[-1]
ShortName(name) == Parts(name)[Len(Parts(name))]

\* _TOOL_CATEGORIES
ToolCategories ==
    [short \in { "get_repo_overview", "read_file", "list_dir", "find_file", "search_for_pattern",
                 "get_symbols_overview", "find_symbol", "find_referencing_symbols" } |->
        CASE short = "read_file" -> "Reading"
          [] short \in { "list_dir", "find_file", "search_for_pattern" } -> "Searching"
          [] OTHER -> "Analyzing"]

\* for comparison: a lookup that passes an unlisted short name on as it is
ToolCategoryNoDefault(name) ==
    IF ShortName(name) \in DOMAIN ToolCategories THEN ToolCategories[ShortName(name)]
    ELSE ShortName(name)
\* _tool_category
ToolCategory(name) ==
    IF ShortName(name) \in DOMAIN ToolCategories THEN ToolCategories[ShortName(name)]
    ELSE "Exploring"

\* _HIDDEN_TOOLS: the provider's set-up tools, by their short names
HiddenTools ==
    { "initial_instructions", "onboarding", "check_onboarding_performed",
      "prepare_for_new_conversation", "switch_modes", "get_current_config",
      "activate_project", "write_memory", "read_memory", "list_memories",
      "delete_memory", "edit_memory" }
\* the names of MCPManager.get_tool_schemas(): the discovered tools that are
\* not hidden
ToolSchemas == { name \in ToolMap : ShortName(name) \notin HiddenTools }

\* "await on_step(_tool_category(block.name))" for block i is begun; steps is
\* the record of the calls of on_step made for the current response
OnStep(rn, i) ==
    [rn EXCEPT !.block = i,
               !.steps = Append(@, [id |-> rn.response.content[i].id,
                                    category |-> ToolCategory(rn.response.content[i].name)])]

\* one tool_use block has its result: on to the next block, or to the end of the turn
AfterResult(p, rn, text) ==
    LET blk == rn.response.content[rn.block]
        rn1 == [rn EXCEPT !.tool_results = AddResult(@, ToolResult(blk.id, text, Absent))]
        nb == NextToolUse(rn.response.content, rn.block)
    IN IF nb = 0
       THEN EndToolTurn(p, rn1)
       ELSE Goto(p, OnStep(rn1, nb), "step") /\ UNCHANGED heap

\* the locals of task p, without those of a call that has returned
Cur(p) == IF run[p].returned THEN Forget(run[p]) ELSE run[p]

\* the text deltas of a response streamed to its end: the text of every text
\* block arrives as one delta
TextChunks(r) == AnswerOf(r.content)

\* the text deltas that arrived before an attempt failed: a rate-limit error
\* rejects the request before anything is streamed, an overload error may
\* break a stream that has begun
PartialChunks(e) == IF e = "OverloadedError" THEN << "p" >> ELSE <<>>

\* for comparison: a list of deltas that lives across the attempts
AttemptChunksKept(before) == before
\* "text_chunks: list[str] = []" at the start of every attempt
AttemptChunks(before) == <<>>

\* "await on_text_chunk(chunk)" for the next chunk is begun; surfaced is the
\* record of the chunks passed to on_text_chunk
OnTextChunk(rn) ==
    IF Len(rn.surfaced) < Len(rn.text_chunks)
    THEN [rn EXCEPT !.surfaced = Append(@, rn.text_chunks[Len(@) + 1])]
    ELSE rn

\* for comparison: a loop that takes every response for the answer
TerminalAlways(rn) == TRUE
\* the response ends the run: 'if response.stop_reason == "end_turn"' in the
\* loop, and the forced final call after it
Terminal(rn) == rn.final \/ rn.response.stop_reason = "end_turn"

\* _stream_with_retry returned its response to agent.ask
ProcessResponse(p, rn0) ==
    LET rn == [rn0 EXCEPT !.returned = TRUE,
                          !.tool_calls = IF rn0.final THEN @ ELSE @ + 1,
                          !.final_calls = IF rn0.final THEN @ + 1 ELSE @,
                          !.tool_results = <<>>, !.block = 0, !.steps = <<>>]
        first == NextToolUse(rn.response.content, 0)
    IN IF Terminal(rn)
       THEN Goto(p, OnTextChunk(rn), "flush") /\ UNCHANGED heap
       ELSE IF first = 0
            THEN EndToolTurn(p, rn)
            ELSE Goto(p, OnStep(rn, first), "step") /\ UNCHANGED heap

(***************************************************************************)
(* _stream_with_retry: one attempt of a model call and what follows it.    *)
(***************************************************************************)
\* the attempt streamed a whole response; the quota headers may ask for a pause
AttemptOk(p, r, h) ==
    /\ pc[p] = "call"
    /\ r \in (IF run[p].final THEN FinalResponses ELSE ToolResponses)
    /\ LET rn == [Cur(p) EXCEPT !.response = r, !.demand = CheckRateLimits(h),
                                !.text_chunks = AttemptChunks(@) \o TextChunks(r)]
       IN IF CheckRateLimits(h) > 0
          THEN Goto(p, [rn EXCEPT !.pauses = @ + 1, !.sleeps = @ + 1,
                                  !.wait = CheckRateLimits(h)], "quota") /\ UNCHANGED heap
          ELSE ProcessResponse(p, rn)

\* the proactive sleep of _check_rate_limits is over
QuotaDone(p) ==
    /\ pc[p] = "quota"
    /\ ProcessResponse(p, run[p])

\* "isinstance(e, anthropic.RateLimitError) or ... status_code ... == 529"
RetryableErrors == { "RateLimitError", "OverloadedError" }

\* for comparison: a client that retries without end
GivesUpNever(retryable, attempt) == ~retryable
\* "if not is_retryable or attempt == MAX_RETRIES - 1: raise"
GivesUp(retryable, attempt) == ~retryable \/ attempt = MAX_RETRIES - 1

\* for comparison: a retry without a sleep
BackoffSkipped(rn) == rn
\* "await asyncio.sleep(wait)" after a retryable failure: one more sleep
Backoff(rn) == [rn EXCEPT !.sleeps = @ + 1]

\* the retry-after header of a failed response: absent, or a number of seconds
RetryAfterHints == { Missing, 7 }
\* the quota headers of a failed response: absent, or no request left
FailedHeaderCases ==
    { NoHeaders, [tokens |-> Quota(50, 100, 2), requests |-> Quota(0, 10, 1)] }

\* for comparison: a delay that grows with the attempt
BackoffWaitLinear(hint, attempt) == IF hint # Missing THEN hint ELSE DefaultWait * (attempt + 1)
\* "wait = int(retry_after) if retry_after else 30"
BackoffWait(hint, attempt) == IF hint # Missing THEN hint ELSE DefaultWait

\* the attempt failed with a rate-limit or an overload (529) error; the
\* provider fails at most faults attempts of one call this way.  hint, wait
\* and demand are the retry-after header of the failed response, the length
\* of the sleep that follows and the pause its quota headers would call for
AttemptRetryable(p, faults) ==
    /\ pc[p] = "call"
    /\ Cur(p).fails < faults
    /\ \E e \in RetryableErrors, hint \in RetryAfterHints, h \in FailedHeaderCases :
          LET rn == [Cur(p) EXCEPT !.fails = @ + 1, !.error = e, !.hint = hint,
                                   !.wait = BackoffWait(hint, Cur(p).attempt),
                                   !.demand = CheckRateLimits(h),
                                   !.text_chunks = AttemptChunks(@) \o PartialChunks(e)]
          IN IF GivesUp(TRUE, rn.attempt)
             THEN Raise(p, rn, rn.error)
             ELSE Goto(p, Backoff(rn), "backoff") /\ UNCHANGED heap

\* the attempt failed with any other error
AttemptFatal(p) ==
    /\ pc[p] = "call"
    /\ GivesUp(FALSE, Cur(p).attempt)
    /\ Raise(p, [Cur(p) EXCEPT !.fails = @ + 1, !.error = "APIError",
                               !.text_chunks = AttemptChunks(@)], "APIError")

\* "await asyncio.sleep(wait)" is over: the next attempt
BackoffDone(p) ==
    /\ pc[p] = "backoff"
    /\ Goto(p, [run[p] EXCEPT !.attempt = @ + 1, !.hint = NoRun.hint, !.wait = 0, !.demand = 0], "call")
    /\ UNCHANGED heap

(***************************************************************************)
(* agent.ask: the awaits of a turn.                                        *)
(***************************************************************************)
\* on_text_chunk returned: the next chunk is passed on; after the last one
\* the answer is built, the assistant turn appended, and
\* ConversationManager.ask finishes
FlushDone(p) ==
    /\ pc[p] = "flush"
    /\ LET answer == AnswerOf(Cur(p).response.content)
       IN IF Len(run[p].surfaced) < Len(run[p].text_chunks)
          THEN Goto(p, OnTextChunk(Cur(p)), "flush") /\ UNCHANGED heap
          ELSE Succeed(p, Cur(p),
                       Append(heap[req[p].messages], ListMsg("assistant", run[p].response.content)),
                       answer)

\* on_text_chunk raised
FlushRaise(p) ==
    /\ pc[p] = "flush"
    /\ Raise(p, Cur(p), "CallbackError")

\* on_step returned: the tool is resolved; only a provider tool is awaited
StepDone(p, available) ==
    /\ pc[p] = "step"
    /\ LET name == run[p].response.content[run[p].block].name
       IN IF name = OverviewTool
          THEN AfterResult(p, Cur(p), IF GetOverview(available) # "" THEN GetOverview(available)
                                      ELSE "(overview not available)")
          ELSE IF ~IsMcpTool(name)
               THEN AfterResult(p, Cur(p), "Error: unknown tool")
               ELSE Goto(p, Cur(p), "tool") /\ UNCHANGED heap

\* on_step raised
StepRaise(p) ==
    /\ pc[p] = "step"
    /\ Raise(p, Cur(p), "CallbackError")

\* for comparison: a dispatch whose failure leaves call_tool as an exception
ToolDoneRaises(p, text) ==
    /\ pc[p] = "tool"
    /\ IF text = "MCP tool error"
       THEN Raise(p, Cur(p), "ToolError")
       ELSE AfterResult(p, Cur(p), text)

\* MCPManager.call_tool returned: the provider's text, or "MCP tool error: ..."
ToolDone(p, text) ==
    /\ pc[p] = "tool"
    /\ AfterResult(p, Cur(p), text)

\* the task is cancelled at an await: CancelledError is no Exception, so the
\* repair is skipped; leaving "async with" still releases a slot that is held
Cancel(p) ==
    /\ pc[p] \in Running \cup { "wait" }
    /\ LET held == pc[p] \in Running \/ p \in woken
           left == Sem(sem_value, Without(waiters, p), woken \ { p })
           sem == IF pc[p] \in Running THEN Release(left)
                  ELSE WakeUpAll(Sem(left.value + (IF held THEN 1 ELSE 0), left.waiters, left.woken))
       IN Leave(p, Cur(p), "cancelled", Outcome("CancelledError", <<>>), sem)
    /\ heap' = Collect(heap, histories, req', pc')
    /\ UNCHANGED << response_cache, last_access >>

(***************************************************************************)
(* The specifications.                                                     *)
(***************************************************************************)
InitWith(configurations) ==
    /\ settings \in configurations
    /\ now = 0
    /\ heap = [l \in ListIds |-> <<>>]
    /\ histories = [c \in ConvIds |-> NoList]
    /\ last_access = [c \in ConvIds |-> Absent]
    /\ response_cache = [k \in Keys |-> NoEntry]
    /\ sem_value = settings.max_concurrency
    /\ waiters = <<>>
    /\ woken = {}
    /\ pc = [p \in Procs |-> "idle"]
    /\ req = [p \in Procs |-> NoReq]
    /\ run = [p \in Procs |-> NoRun]
    /\ result = [p \in Procs |-> NoResult]
    /\ last = NoLast
    /\ outcome = [c \in ConvIds |-> "none"]

\* the callbacks and the exits of task p
Callbacks(p) ==
    \/ FlushDone(p)
    \/ FlushRaise(p)
    \/ StepRaise(p)
    \/ Cancel(p)

\* an answer, and the two ways a response may go on: one tool, or no tool at all
PlainResponses ==
    { Response("end_turn", << TextBlock("x") >>),
      Response("tool_use", << ToolUse("A", OverviewTool) >>),
      Response("max_tokens", << TextBlock("t") >>) }

\* Concurrent callers: any task may ask at any time.  Tasks 1 and 2 ask
\* without a conversation id, task 3 asks on a conversation.
ConvOf(p) == IF p = 3 THEN "c1" ELSE None
\* an answer, or one tool
TurnResponses ==
    { Response("end_turn", << TextBlock("x") >>),
      Response("tool_use", << ToolUse("A", OverviewTool) >>) }
Init == InitWith({ Setting(1, c, MaxCap) : c \in 1..2 })
Next ==
    \/ \E p \in Procs : Ask(p, <<"a">>, ConvOf(p))
    \/ \E p \in Procs : Resume(p)
    \/ \E p \in Procs, r \in TurnResponses : AttemptOk(p, r, NoHeaders)
    \/ \E p \in Procs : AttemptFatal(p)
    \/ \E p \in Procs : StepDone(p, TRUE)
    \/ \E p \in Procs : Callbacks(p)
Spec == Init /\ [][Next]_vars

\* One caller that issues its asks on one conversation, one after the other.
SeqProcs == { 1 }
InitSeq == InitWith({ Setting(n, 2, cap) : n \in 0..MaxIterations, cap \in 1..MaxCap })
NextSeq ==
    \/ \E p \in SeqProcs, q \in { <<"a">>, <<"b">> }, c \in ConvIds : Ask(p, q, c)
    \/ \E p \in SeqProcs, r \in PlainResponses : AttemptOk(p, r, NoHeaders)
    \/ \E p \in SeqProcs : AttemptFatal(p)
    \/ \E p \in SeqProcs : StepDone(p, TRUE)
    \/ \E p \in SeqProcs : Callbacks(p)
SpecSeq == InitSeq /\ [][NextSeq]_vars

\* One caller, with and without a conversation id, while time passes: the
\* response cache and the expiry.
InitCache == InitWith({ Setting(n, 2, MaxCap) : n \in 0..1 })
NextCache ==
    \/ Tick
    \/ \E p \in SeqProcs, q \in Questions : Ask(p, q, None)
    \/ \E p \in SeqProcs, c \in ConvIds : Ask(p, <<"a">>, c)
    \/ \E p \in SeqProcs, r \in FinalResponses : AttemptOk(p, r, NoHeaders)
    \/ \E p \in SeqProcs : AttemptFatal(p)
    \/ \E p \in SeqProcs : FlushDone(p)
SpecCache == InitCache /\ [][NextCache]_vars

\* One stateless question at a time: the turns of the agent loop.
InitAgent == InitWith({ Setting(n, 2, MaxCap) : n \in 0..MaxIterations })
NextAgent ==
    \/ Tick
    \/ \E p \in SeqProcs : Ask(p, <<"a">>, None)
    \/ \E p \in SeqProcs, r \in ToolResponses \cup FinalResponses : AttemptOk(p, r, NoHeaders)
    \/ \E p \in SeqProcs : AttemptFatal(p)
    \/ \E p \in SeqProcs, available \in BOOLEAN : StepDone(p, available)
    \/ \E p \in SeqProcs, text \in { "ok", "MCP tool error" } : ToolDone(p, text)
    \/ \E p \in SeqProcs : Callbacks(p)
SpecAgent == InitAgent /\ [][NextAgent]_vars

\* One model call after the other of one question, asked with or without a
\* conversation id: the retrying client.
MaxFaults == 5
InitRetry == InitWith({ Setting(n, 2, MaxCap) : n \in 0..1 })
NextRetry ==
    \/ \E p \in SeqProcs, c \in ConvIds \cup { None } : Ask(p, <<"a">>, c)
    \/ \E p \in SeqProcs, r \in PlainResponses, h \in HeaderCases : AttemptOk(p, r, h)
    \/ \E p \in SeqProcs : QuotaDone(p)
    \/ \E p \in SeqProcs : AttemptRetryable(p, MaxFaults)
    \/ \E p \in SeqProcs : AttemptFatal(p)
    \/ \E p \in SeqProcs : BackoffDone(p)
    \/ \E p \in SeqProcs : StepDone(p, TRUE)
    \/ \E p \in SeqProcs : Callbacks(p)
SpecRetry == InitRetry /\ [][NextRetry]_vars

\* One caller on one conversation, with every kind of response: tool turns of
\* one and of several invocations, and answers.
PairResponses ==
    { Response("end_turn", << TextBlock("x") >>) }
    \cup { Response("tool_use", c) : c \in ToolTurnContents }
InitPair == InitWith({ Setting(n, 2, cap) : n \in 0..MaxIterations, cap \in 1..MaxCap })
NextPair ==
    \/ \E p \in SeqProcs, c \in ConvIds : Ask(p, <<"a">>, c)
    \/ \E p \in SeqProcs, r \in PairResponses : AttemptOk(p, r, NoHeaders)
    \/ \E p \in SeqProcs : AttemptFatal(p)
    \/ \E p \in SeqProcs : StepDone(p, TRUE)
    \/ \E p \in SeqProcs : ToolDone(p, "ok")
    \/ \E p \in SeqProcs : Callbacks(p)
SpecPair == InitPair /\ [][NextPair]_vars

\* One caller without a conversation and budgets on both sides of the
\* warning threshold; a turn asks for one tool, for several, or for none.
WarnBudgets == { 1, WarnThreshold + 1, WarnThreshold + 2 }
WarnResponses ==
    { Response("end_turn", << TextBlock("x") >>), Response("max_tokens", << TextBlock("t") >>) }
    \cup { Response("tool_use", c) : c \in ToolTurnContents }
InitWarn == InitWith({ Setting(n, 2, MaxCap) : n \in WarnBudgets })
NextWarn ==
    \/ \E p \in SeqProcs : Ask(p, <<"a">>, None)
    \/ \E p \in SeqProcs, r \in WarnResponses : AttemptOk(p, r, NoHeaders)
    \/ \E p \in SeqProcs : StepDone(p, TRUE)
    \/ \E p \in SeqProcs : ToolDone(p, "ok")
    \/ \E p \in SeqProcs : FlushDone(p)
SpecWarn == InitWarn /\ [][NextWarn]_vars

\* Two callers and one slot; a model call may fail once and be retried, and
\* a response may come with quota headers that call for a pause.
HoldProcs == { 1, 2 }
InitHold == InitWith({ Setting(0, 1, MaxCap) })
NextHold ==
    \/ \E p \in HoldProcs : Ask(p, <<"a">>, None)
    \/ \E p \in HoldProcs : Resume(p)
    \/ \E p \in HoldProcs, h \in FailedHeaderCases :
          AttemptOk(p, Response("end_turn", << TextBlock("x") >>), h)
    \/ \E p \in HoldProcs : QuotaDone(p)
    \/ \E p \in HoldProcs : AttemptRetryable(p, 1)
    \/ \E p \in HoldProcs : BackoffDone(p)
    \/ \E p \in HoldProcs : FlushDone(p)
    \/ \E p \in HoldProcs : Cancel(p)
SpecHold == InitHold /\ [][NextHold]_vars

\* Three callers and one slot: asks queue at the semaphore.
InitQueue == InitWith({ Setting(0, 1, MaxCap) })
\* an await of the ask of task p is over: the wake-up, the attempt, the callback
QueueProgress(p) ==
    \/ Resume(p)
    \/ AttemptOk(p, Response("end_turn", << TextBlock("x") >>), NoHeaders)
    \/ AttemptFatal(p)
    \/ FlushDone(p)
NextQueue ==
    \/ \E p \in Procs : Ask(p, <<"a">>, None)
    \/ \E p \in Procs : QueueProgress(p)
    \/ \E p \in Procs : Cancel(p)
SpecQueue == InitQueue /\ [][NextQueue]_vars
\* the same program where no await stays pending for ever
SpecQueueFair == SpecQueue /\ \A p \in Procs : WF_vars(QueueProgress(p))

\* Two callers on the same conversation, with one slot or two: task 1 asks
\* "a" and task 2 asks "b" while the other's ask may be under way.
RaceProcs == { 1, 2 }
InitRace == InitWith({ Setting(n, c, MaxCap) : n \in 0..1, c \in 1..2 })
NextRace ==
    \/ \E c \in ConvIds : Ask(1, <<"a">>, c)
    \/ \E c \in ConvIds : Ask(2, <<"b">>, c)
    \/ \E p \in RaceProcs : Resume(p)
    \/ \E p \in RaceProcs, r \in TurnResponses : AttemptOk(p, r, NoHeaders)
    \/ \E p \in RaceProcs : AttemptFatal(p)
    \/ \E p \in RaceProcs : StepDone(p, TRUE)
    \/ \E p \in RaceProcs : FlushDone(p)
SpecRace == InitRace /\ [][NextRace]_vars

\* Two callers without a conversation id who ask the same question, one of
\* them with other case and spacing, while the clock stays within the TTL of
\* the response cache.
OverlapProcs == { 1, 2 }
InitOverlap == InitWith({ Setting(0, c, MaxCap) : c \in 1..2 })
NextOverlap ==
    \/ TickUntil(ResponseCacheTtl)
    \/ Ask(1, <<"a">>, None)
    \/ Ask(2, <<" ", "A">>, None)
    \/ \E p \in OverlapProcs : Resume(p)
    \/ \E p \in OverlapProcs, r \in FinalResponses : AttemptOk(p, r, NoHeaders)
    \/ \E p \in OverlapProcs : AttemptFatal(p)
    \/ \E p \in OverlapProcs : FlushDone(p)
SpecOverlap == InitOverlap /\ [][NextOverlap]_vars

\* One stateless question whose model calls may fail and be retried, with
\* tool turns of one and of several invocations.
RedoFaults == 2
RedoResponses == PairResponses \cup { Response("end_turn", << TextBlock("x"), TextBlock("y") >>) }
InitRedo == InitWith({ Setting(n, 2, MaxCap) : n \in 1..MaxIterations })
NextRedo ==
    \/ \E p \in SeqProcs : Ask(p, <<"a">>, None)
    \/ \E p \in SeqProcs, r \in RedoResponses : AttemptOk(p, r, NoHeaders)
    \/ \E p \in SeqProcs : AttemptRetryable(p, RedoFaults)
    \/ \E p \in SeqProcs : AttemptFatal(p)
    \/ \E p \in SeqProcs : BackoffDone(p)
    \/ \E p \in SeqProcs : StepDone(p, TRUE)
    \/ \E p \in SeqProcs : ToolDone(p, "ok")
    \/ \E p \in SeqProcs : FlushDone(p)
SpecRedo == InitRedo /\ [][NextRedo]_vars

\* One stateless question whose tools give short and long texts.
ProviderTexts == { "ok", "0123456789012345678901234567890123456789" }
InitSize == InitWith({ Setting(n, 2, MaxCap) : n \in 1..MaxIterations })
NextSize ==
    \/ \E p \in SeqProcs : Ask(p, <<"a">>, None)
    \/ \E p \in SeqProcs, r \in PairResponses : AttemptOk(p, r, NoHeaders)
    \/ \E p \in SeqProcs : StepDone(p, TRUE)
    \/ \E p \in SeqProcs, text \in ProviderTexts : ToolDone(p, text)
    \/ \E p \in SeqProcs : FlushDone(p)
SpecSize == InitSize /\ [][NextSize]_vars

\* Two callers and a clock that runs long enough for a conversation to
\* expire twice: task 1 asks within conversation "c1", task 2 without one.
SweepProcs == { 1, 2 }
SweepMaxTime == 2 * (ConversationTtl + 1)
InitSweep == InitWith({ Setting(0, 2, MaxCap) })
NextSweep ==
    \/ TickUntil(SweepMaxTime)
    \/ \E c \in ConvIds : Ask(1, <<"a">>, c)
    \/ Ask(2, <<"a">>, None)
    \/ \E p \in SweepProcs : AttemptOk(p, Response("end_turn", << TextBlock("x") >>), NoHeaders)
    \/ \E p \in SweepProcs : AttemptFatal(p)
    \/ \E p \in SweepProcs : FlushDone(p)
SpecSweep == InitSweep /\ [][NextSweep]_vars

\* an await of the run of task p is over, one way or the other: the attempt,
\* the sleep, the callback
Progress(p) ==
    \/ \E r \in PlainResponses, h \in HeaderCases : AttemptOk(p, r, h)
    \/ QuotaDone(p)
    \/ AttemptRetryable(p, MaxFaults)
    \/ AttemptFatal(p)
    \/ BackoffDone(p)
    \/ StepDone(p, TRUE)
    \/ FlushDone(p)
    \/ FlushRaise(p)
    \/ StepRaise(p)
\* the same program where no await of a run stays pending for ever
SpecRetryFair == SpecRetry /\ \A p \in SeqProcs : WF_vars(Progress(p))

(***************************************************************************)
(* Properties of the conversation manager and of the agent loop.           *)
(***************************************************************************)
\* roles strictly alternate user, assistant, user, ... starting with user
Alternates(messages) ==
    \A i \in 1..Len(messages) :
        messages[i].role = (IF i % 2 = 1 THEN "user" ELSE "assistant")

\* the stored history of a conversation
Stored(c) == IF histories[c] = NoList THEN <<>> ELSE heap[histories[c]]

\* the tasks whose agent run is in progress: admitted, and neither returned nor raised
InProgress == { p \in Procs : pc[p] \in Running }

\* C1: after ConversationManager.ask returned the answer of an agent run on a
\* conversation (by end_turn or by the forced final call), the stored
\* history of that conversation alternates user, assistant, ... starting
\* with user.  The history handed to the run is always valid, because an
\* invalid one is reset before the run.
C1_StoredHistoryAlternatesAfterAsk ==
    \A p \in Procs :
        (pc[p] = "returned" /\ ~result[p].cached /\ req[p].conversation_id # None)
        => Alternates(Stored(req[p].conversation_id))

\* C2: the ask that follows, on the same conversation, an ask whose agent run
\* raised and was repaired hands the agent loop a history that is not empty,
\* alternates starting with user and ends with a user message.
C2_AskAfterFailureHandsValidHistory ==
    \A p \in Procs :
        (pc[p] \notin Idle /\ req[p].after = "raised")
        => /\ req[p].handed # <<>>
           /\ Alternates(req[p].handed)
           /\ req[p].handed[Len(req[p].handed)].role = "user"

\* an ask on a conversation whose previous run raised after the conversation
\* had an earlier exchange: the repaired history is kept and extended
C2_Witness ==
    \E p \in Procs :
        /\ pc[p] = "call"
        /\ req[p].after = "raised"
        /\ Len(req[p].handed) >= 3

\* C3: after the agent run raised and the repair ran, the stored history is
\* empty or its last message is an assistant message without tool_use blocks.
C3_RepairLeavesCompletedExchanges ==
    \A p \in Procs :
        (pc[p] = "raised" /\ result[p].status # "KeyError" /\ req[p].conversation_id # None)
        => LET h == Stored(req[p].conversation_id)
           IN \/ h = <<>>
              \/ /\ h[Len(h)].role = "assistant"
                 /\ \/ h[Len(h)].kind # "list"
                    \/ \A i \in DOMAIN h[Len(h)].content : h[Len(h)].content[i].type # "tool_use"

\* C4: the agent loop never performs more than max_iterations tool turns;
\* once the budget is exhausted it has performed exactly max_iterations of
\* them, the answer-now instruction is the last message the one tools-free
\* call is given, and the text of that call's response is the answer.
C4_BudgetThenOneToolsFreeCall ==
    \A p \in Procs :
        /\ run[p].tool_turns <= settings.max_iterations
        /\ ~run[p].final => run[p].final_calls = 0
        /\ run[p].final =>
              /\ run[p].tool_turns = settings.max_iterations
              /\ run[p].tool_calls = settings.max_iterations
              /\ run[p].final_calls <= 1
        /\ (run[p].final /\ pc[p] \in { "call", "flush" }) =>
              LET messages == heap[req[p].messages]
              IN messages # <<>> /\ messages[Len(messages)] = AnswerNowMsg
        /\ (run[p].final /\ pc[p] = "returned") =>
              /\ run[p].final_calls = 1
              /\ result[p].answer = AnswerOf(run[p].response.content)

\* the model asked for a tool on each of two turns and the forced call answered
C4_Witness ==
    \E p \in Procs :
        /\ pc[p] = "returned"
        /\ run[p].final
        /\ settings.max_iterations >= 2
        /\ run[p].tool_turns = settings.max_iterations
        /\ run[p].final_calls = 1
        /\ result[p].answer # <<>>

\* a question without the whitespace around it, in lower case
Canon(q) ==
    LET solid == { i \in DOMAIN q : q[i] # " " }
        lo == CHOOSE i \in solid : \A j \in solid : i <= j
        hi == CHOOSE i \in solid : \A j \in solid : j <= i
    IN IF solid = {} THEN <<>>
       ELSE [ i \in 1..(hi - lo + 1) |-> IF q[lo + i - 1] = "A" THEN "a"
                                         ELSE IF q[lo + i - 1] = "B" THEN "b"
                                         ELSE q[lo + i - 1] ]

\* task p starts an ask in this step
AskStep(p) ==
    /\ pc[p] \in Idle
    /\ << pc[p], req[p], result[p], run[p] >>' # << pc[p], req[p], result[p], run[p] >>

\* C5: an ask without a conversation id that starts after an ask without a
\* conversation id ran the agent to an answer, for a question equal to that
\* one after trimming and lower-casing and within the response-cache TTL,
\* returns at once the first ask's answer and runs no agent loop.
C5_SecondAskIsServedFromCache ==
    [][ \A p \in Procs :
            ( /\ AskStep(p)
              /\ req'[p].conversation_id = None
              /\ last # NoLast
              /\ Canon(req'[p].question) = Canon(last.question)
              /\ now - last.at <= settings.response_cache_ttl )
            => /\ pc'[p] = "returned"
               /\ result'[p].cached
               /\ result'[p].answer = last.answer
               /\ run'[p] = NoRun ]_vars

\* the second ask differed from the first in case and whitespace and got its answer
C5_Witness ==
    \E p \in Procs :
        /\ pc[p] = "returned"
        /\ result[p].cached
        /\ req[p].conversation_id = None
        /\ result[p].after # NoLast
        /\ result[p].after.question # req[p].question
        /\ Canon(result[p].after.question) = Canon(req[p].question)
        /\ result[p].answer = result[p].after.answer

\* C6: the number of agent runs in progress never exceeds max_concurrency.
C6_RunsInProgressWithinMaxConcurrency ==
    Cardinality(InProgress) <= settings.max_concurrency

\* as many runs as slots are in progress while another ask waits
C6_Witness ==
    /\ settings.max_concurrency = 2
    /\ Cardinality(InProgress) = 2
    /\ waiters # <<>>

\* every slot is free, held by a run in progress or given to a woken waiter
SlotsConserved ==
    /\ sem_value >= 0
    /\ sem_value + Cardinality(InProgress) + Cardinality(woken) = settings.max_concurrency
    /\ (\A p \in Procs : pc[p] \in Idle) => sem_value = settings.max_concurrency

\* C7: no exit of an agent run leaks its slot: free slots, runs in progress
\* and woken waiters always add up to max_concurrency, so that all slots are
\* free again once every ask has finished; an ask answered from the cache
\* runs no agent loop and leaves the semaphore as it was.
C7_SlotReleasedOnEveryExit ==
    /\ []SlotsConserved
    /\ [][ \A p \in Procs :
              (AskStep(p) /\ result'[p].cached)
              => /\ pc'[p] = "returned"
                 /\ run'[p] = NoRun
                 /\ UNCHANGED semVars ]_vars

\* every ask has finished, one by a return, one by a callback exception
\* and one by a cancellation, and every slot is free
C7_Witness ==
    /\ \A p \in Procs : pc[p] \in Idle
    /\ \E p \in Procs : pc[p] = "returned" /\ ~result[p].cached
    /\ \E p \in Procs : pc[p] = "raised" /\ result[p].status = "CallbackError"
    /\ \E p \in Procs : pc[p] = "cancelled"
    /\ sem_value = settings.max_concurrency

ResultIds(content) == [ i \in 1..Len(content) |-> content[i].tool_use_id ]

\* C9: every user message of tool results follows the assistant message of
\* its turn and holds one result per tool_use block of that message, with
\* the ids of these blocks in their order; while the tools of a turn are
\* dispatched, the results gathered so far are those of the first blocks.
C9_ToolResultsFollowRequestOrder ==
    /\ \A l \in ListIds : \A i \in 1..Len(heap[l]) :
          (heap[l][i].role = "user" /\ heap[l][i].kind = "list")
          => /\ i > 1
             /\ heap[l][i - 1].role = "assistant"
             /\ heap[l][i - 1].kind = "list"
             /\ ResultIds(heap[l][i].content) = ToolUseIds(heap[l][i - 1].content)
    /\ \A p \in Procs :
          pc[p] \in { "step", "tool" }
          => LET done == ResultIds(run[p].tool_results)
                 asked == ToolUseIds(run[p].response.content)
             IN /\ Len(done) < Len(asked)
                /\ done = SubSeq(asked, 1, Len(done))

\* a turn asked for three tools and its results are in the history
C9_Witness ==
    \E l \in ListIds : \E i \in 1..Len(heap[l]) :
        /\ heap[l][i].role = "user"
        /\ heap[l][i].kind = "list"
        /\ ResultIds(heap[l][i].content) = << "C", "A", "B" >>

\* C10: a model call that returned its response without a proactive pause
\* slept exactly once per failed attempt, and at most MAX_RETRIES - 1
\* attempts had failed.
C10_OneBackoffSleepPerRetryableFailure ==
    \A p \in Procs :
        (run[p].returned /\ run[p].pauses = 0)
        => /\ run[p].fails \in 0..(MAX_RETRIES - 1)
           /\ run[p].sleeps = run[p].fails
           /\ run[p].attempt = run[p].fails

\* two retryable failures, then the response, after two sleeps
C10_Witness ==
    \E p \in Procs :
        /\ run[p].returned
        /\ run[p].pauses = 0
        /\ run[p].fails = 2
        /\ run[p].sleeps = 2

\* C11: a model call never makes more than MAX_RETRIES attempts; when every
\* attempt failed with a retryable error the call made MAX_RETRIES attempts
\* and slept MAX_RETRIES - 1 times, and the caller of ask gets the error of
\* the last attempt; a call that returns has a response.
C11_FiveAttemptsThenLastErrorRaised ==
    \A p \in Procs :
        /\ run[p].attempt <= MAX_RETRIES - 1
        /\ run[p].fails <= MAX_RETRIES
        /\ run[p].returned => run[p].response # NoResponse
        /\ (pc[p] = "raised" /\ result[p].status \in { "RateLimitError", "OverloadedError" })
           => /\ run[p].fails = MAX_RETRIES
              /\ run[p].attempt = MAX_RETRIES - 1
              /\ run[p].sleeps = MAX_RETRIES - 1
              /\ result[p].status = run[p].error

\* five attempts failed, the last one with an overload error, which is raised
C11_Witness ==
    \E p \in Procs :
        /\ pc[p] = "raised"
        /\ result[p].status = "OverloadedError"
        /\ run[p].fails = 5
        /\ run[p].sleeps = 4

\* the history as the repair leaves it: unless it is one message long, it
\* ends neither with the tool results or the answer-now instruction of the
\* failed run nor with an assistant message that has tool_use blocks
Repaired(h) ==
    \/ Len(h) <= 1
    \/ LET m == h[Len(h)]
       IN /\ m.role = "user" => (m.kind = "str" /\ m # AnswerNowMsg)
          /\ m.role = "assistant" =>
                \/ m.kind # "list"
                \/ \A i \in DOMAIN m.content : m.content[i].type # "tool_use"

\* C12: an error that is neither a rate-limit nor an overload error is raised
\* on the attempt where it occurs, without a sleep and without a further
\* attempt, and reaches the caller as it is, after the repair of the history.
C12_OtherErrorsRaisedAtOnce ==
    \A p \in Procs :
        (pc[p] = "raised" /\ result[p].status = "APIError")
        => /\ run[p].error = "APIError"
           /\ run[p].attempt = run[p].fails - 1
           /\ run[p].sleeps = run[p].fails - 1
           /\ req[p].conversation_id # None => Repaired(Stored(req[p].conversation_id))

\* the third attempt of a call of an ask on a conversation failed for good
C12_Witness ==
    \E p \in Procs :
        /\ pc[p] = "raised"
        /\ result[p].status = "APIError"
        /\ req[p].conversation_id # None
        /\ run[p].fails = 3
        /\ run[p].sleeps = 2

\* task p takes a step of its agent run
RunStep(p) == << pc[p], run[p] >>' # << pc[p], run[p] >>

ToolUses(content) == SelectSeq(content, LAMBDA b : b.type = "tool_use")

Categories == { "Analyzing", "Reading", "Searching", "Exploring" }

\* C14: the calls of on_step made for a response are, in order, one for each
\* of its tool invocations up to the current one; the call for an invocation
\* is made when the results of all earlier invocations of the turn are in
\* and before the invocation itself is resolved; once the turn is over there
\* has been one call for every invocation.  The category passed is one of
\* Analyzing, Reading, Searching and Exploring, and it is Exploring for a
\* short tool name that the category table does not list.
C14_OnStepOncePerInvocationInOrder ==
    \A p \in Procs :
        LET rn == run[p]
            uses == ToolUses(rn.response.content)
        IN /\ Len(rn.steps) <= Len(uses)
           /\ \A i \in DOMAIN rn.steps :
                 /\ rn.steps[i].id = uses[i].id
                 /\ rn.steps[i].category \in Categories
                 /\ ShortName(uses[i].name) \notin DOMAIN ToolCategories
                    => rn.steps[i].category = "Exploring"
           /\ pc[p] \in { "step", "tool" }
              => /\ Len(rn.steps) = Len(rn.tool_results) + 1
                 /\ rn.steps[Len(rn.steps)].id = rn.response.content[rn.block].id
           /\ (pc[p] = "call" /\ rn.response.stop_reason = "tool_use")
              => /\ Len(rn.steps) = Len(uses)
                 /\ Len(rn.tool_results) = Len(uses)

\* a turn of three invocations, one of them of an unlisted tool, is over
C14_Witness ==
    \E p \in Procs :
        /\ pc[p] = "call"
        /\ Len(run[p].tool_results) = 3
        /\ Len(run[p].steps) = 3
        /\ run[p].steps[1].category = "Reading"
        /\ run[p].steps[2].category = "Exploring"
        /\ run[p].steps[3].category = "Exploring"

\* C15: whatever has been passed to on_text_chunk in a run was passed after
\* the model call of the terminal turn returned (the end_turn response or the
\* response of the forced final call), and it is the chunks of that response
\* from the first one on, in their order; nothing is passed while a call is
\* under way or while the tools of a turn are resolved, so the text of a
\* tool-use turn never reaches on_text_chunk.
C15_OnlyTerminalTurnIsSurfaced ==
    \A p \in Procs :
        run[p].surfaced # <<>>
        => /\ pc[p] = "flush"
           /\ run[p].response.stop_reason = "end_turn" \/ run[p].final_calls = 1
           /\ run[p].tool_calls + run[p].final_calls >= 1
           /\ Len(run[p].surfaced) <= Len(TextChunks(run[p].response))
           /\ run[p].surfaced = SubSeq(TextChunks(run[p].response), 1, Len(run[p].surfaced))

\* both chunks of an answer that follows a tool-use turn have been passed on
C15_Witness ==
    \E p \in Procs :
        /\ pc[p] = "flush"
        /\ run[p].tool_turns >= 1
        /\ run[p].surfaced = << "x", "y" >>

\* C16: when no await of a run stays pending for ever, an ask that has been
\* admitted returns an answer or raises; on the way a run makes at most
\* max_iterations calls with tools and one without, and a call is at most
\* at its fifth attempt.
C16_AdmittedAskReturnsOrRaises ==
    /\ [](\A p \in SeqProcs :
             /\ run[p].tool_calls <= settings.max_iterations
             /\ run[p].final_calls <= 1
             /\ run[p].tool_calls + run[p].final_calls <= settings.max_iterations + 1
             /\ run[p].attempt <= MAX_RETRIES - 1
             /\ pc[p] = "returned" => result[p].status = "answer")
    /\ \A p \in SeqProcs : (pc[p] \in Running) ~> (pc[p] \in { "returned", "raised", "cancelled" })

\* an ask has returned after max_iterations + 1 model calls
C16_Witness ==
    \E p \in SeqProcs :
        /\ pc[p] = "returned"
        /\ ~result[p].cached
        /\ settings.max_iterations = 1
        /\ run[p].tool_calls + run[p].final_calls = settings.max_iterations + 1

\* C17: an ask that is answered from the cache leaves the history map, the
\* last-access map and the response cache as they were, less the entries
\* that were past their TTL when it began: the histories that stay keep their
\* messages, the entry it was answered from keeps its timestamp, a
\* conversation id it carried has no history and no access time afterwards,
\* no slot is taken, and no agent run begins, so that neither on_step nor
\* on_text_chunk is called.
C17_CacheHitChangesNothingButTheSweep ==
    [][ \A p \in Procs :
            (AskStep(p) /\ result'[p].cached)
            => LET key == req'[p].cache_key
                   c == req'[p].conversation_id
               IN /\ pc'[p] = "returned"
                  /\ histories' = [cid \in ConvIds |-> IF cid \in ExpiredConversations
                                                      THEN NoList ELSE histories[cid]]
                  /\ last_access' = [cid \in ConvIds |-> IF cid \in ExpiredConversations
                                                        THEN Absent ELSE last_access[cid]]
                  /\ response_cache' = [k \in Keys |-> IF k \in ExpiredCache
                                                      THEN NoEntry ELSE response_cache[k]]
                  /\ \A cid \in ConvIds :
                        histories'[cid] # NoList => heap'[histories'[cid]] = heap[histories[cid]]
                  /\ response_cache'[key] = response_cache[key]
                  /\ result'[p].answer = response_cache[key].answer
                  /\ c # None => (histories'[c] = NoList /\ last_access'[c] = Absent)
                  /\ << sem_value, waiters, woken >>' = << sem_value, waiters, woken >>
                  /\ run'[p] = NoRun ]_vars

\* an ask that carried an unseen conversation id was answered from the cache
C17_Witness ==
    \E p \in Procs :
        /\ pc[p] = "returned"
        /\ result[p].cached
        /\ req[p].conversation_id # None
        /\ histories[req[p].conversation_id] = NoList
        /\ response_cache[req[p].cache_key] # NoEntry

\* C18: an entry of the response cache is written only by the return of an
\* ask that carried no conversation id and whose agent run gave an answer.
C18_CacheWrittenOnlyByStatelessSuccess ==
    [][ \A k \in Keys :
            (response_cache'[k] # response_cache[k] /\ response_cache'[k] # NoEntry)
            => \E p \in Procs :
                  /\ pc[p] \in Running
                  /\ pc'[p] = "returned"
                  /\ result'[p].status = "answer"
                  /\ req[p].cache_key = k
                  /\ req[p].conversation_id = None ]_vars

\* C19: an ask begins by removing every conversation and every cache entry
\* that is past its TTL, and nothing else: an expired conversation is gone
\* afterwards unless this ask records it anew, and then as a conversation
\* that was unseen; an expired cache entry is gone and is not answered from;
\* a conversation and a cache entry within their TTL stay as they are.
C19_AskSweepsExactlyTheExpired ==
    [][ \A p \in Procs :
            AskStep(p)
            => LET c == req'[p].conversation_id
               IN /\ \A cid \in ExpiredConversations :
                        /\ cid # c => (histories'[cid] = NoList /\ last_access'[cid] = Absent)
                        /\ cid = c => ~req'[p].is_followup
                  /\ \A cid \in ConvIds \ ExpiredConversations :
                        (last_access[cid] # Absent /\ cid # c)
                        => (last_access'[cid] = last_access[cid] /\ histories'[cid] = histories[cid])
                  /\ \A k \in ExpiredCache :
                        /\ response_cache'[k] = NoEntry
                        /\ ~(result'[p].cached /\ req'[p].cache_key = k)
                  /\ \A k \in Keys \ ExpiredCache : response_cache'[k] = response_cache[k] ]_vars

\* C20: an ask that goes on to the agent loop has validated the history with
\* its question appended: a history whose roles do not alternate from user
\* on has been replaced by the question alone, in the list the conversation
\* stores, and a history whose roles alternate has been left as it was; the
\* ask raises nothing on the way.
C20_BrokenHistoryRestartsFromQuestion ==
    [][ \A p \in Procs :
            (AskStep(p) /\ ~result'[p].cached /\ result'[p].status # "KeyError")
            => LET q == QuestionMsg(req'[p].question)
                   c == req'[p].conversation_id
                   built == IF req'[p].is_followup THEN Append(Stored(c), q) ELSE << q >>
               IN /\ pc'[p] \in { "call", "wait" }
                  /\ req'[p].validated = IF Alternates(built) THEN built ELSE << q >>
                  /\ c # None
                     => /\ histories'[c] = req'[p].messages
                        /\ req'[p].is_followup => histories'[c] = histories[c]
                        /\ SubSeq(heap'[histories'[c]], 1, Len(req'[p].handed)) = req'[p].handed ]_vars

\* a follow-up found a history that a failed run had left ending with a user
\* message and went on with its question alone
C20_Witness ==
    \E p \in Procs :
        /\ pc[p] = "call"
        /\ req[p].is_followup
        /\ req[p].after = "raised"
        /\ req[p].validated = << QuestionMsg(req[p].question) >>
        /\ Stored(req[p].conversation_id)[1] = QuestionMsg(req[p].question)

\* C21: when the agent run of an ask on a conversation ends abnormally, by
\* an exception or by the cancellation of the task, the history the run
\* leaves is put through the repair in that same step.
C21_RepairRunsOnEveryAbnormalExit ==
    [][ \A p \in Procs :
            ( /\ pc[p] \in Running
              /\ pc'[p] \in { "raised", "cancelled" }
              /\ req[p].conversation_id # None
              /\ histories[req[p].conversation_id] = req[p].messages )
            => heap'[req[p].messages] = Repair(heap[req[p].messages]) ]_vars

\* C22: the messages a model call is given (at each of its attempts)
\* alternate user, assistant, user, ... starting with user.
C22_EveryModelCallGetsAlternatingHistory ==
    \A p \in Procs :
        pc[p] = "call" => Alternates(heap[req[p].messages])

\* the ids of the tool_result blocks of a content, in order
RECURSIVE ToolResultIds(_)
ToolResultIds(content) ==
    IF content = <<>> THEN <<>>
    ELSE (IF Head(content).type = "tool_result" THEN << Head(content).tool_use_id >> ELSE <<>>)
         \o ToolResultIds(Tail(content))

\* the tool_use ids an assistant message asks for, the tool_result ids a user
\* message answers
Asked(m) == IF m.role = "assistant" /\ m.kind = "list" THEN ToolUseIds(m.content) ELSE <<>>
Answered(m) == IF m.role = "user" /\ m.kind = "list" THEN ToolResultIds(m.content) ELSE <<>>

\* no tool_use without its results in the next message, no tool_result
\* without its tool_use in the message before
Paired(h) ==
    \A i \in DOMAIN h :
        /\ Asked(h[i]) # <<>> => (i < Len(h) /\ Answered(h[i + 1]) = Asked(h[i]))
        /\ Answered(h[i]) # <<>> => (i > 1 /\ Asked(h[i - 1]) = Answered(h[i]))

\* C23: with one ask at a time on a conversation, the stored history pairs
\* every assistant message that asks for tools with a next user message that
\* holds one result per invocation, with the same ids in the same order, and
\* holds no tool result without such a message before it: while a run is at
\* an await, after an answer, after a repaired failure, after a truncation.
C23_ToolUseAndResultsStayPaired ==
    \A c \in ConvIds : Paired(Stored(c))

\* a follow-up whose history was truncated is under way, and the stored
\* history holds a turn of three invocations
C23_Witness ==
    \E p \in Procs :
        /\ pc[p] = "call"
        /\ req[p].is_followup
        /\ Len(req[p].handed) < Len(req[p].validated)
        /\ \E i \in DOMAIN Stored(req[p].conversation_id) :
              Len(Asked(Stored(req[p].conversation_id)[i])) = 3

\* C24: a run makes a further model call only after a response that asked
\* for a tool: a response without tool_use blocks, whatever its stop reason,
\* ends the run with its text as the answer.
C24_ResponseWithoutToolUseEndsRun ==
    \A p \in Procs :
        (pc[p] = "call" /\ run[p].response # NoResponse)
        => ToolUses(run[p].response.content) # <<>>

\* the tool results of the turn at step s (from 0) of a run on a history that
\* began with the question alone: every turn adds two messages
TurnResults(h, s) == h[2 * s + 3].content

\* C25: in a run with budget N, the results of the tool turn at step s carry
\* the warning on the last result, with the count N - s - 1, exactly when
\* N - s <= 5 and the turn has a result; no other result carries a warning.
\* The count is the number of calls with tools the run has left.
C25_WarningOnLastResultOfLateTurns ==
    \A p \in Procs :
        pc[p] \in Running
        => LET h == heap[req[p].messages]
               N == settings.max_iterations
           IN /\ \A s \in 0..(run[p].tool_turns - 1) :
                    LET results == TurnResults(h, s)
                    IN \A j \in DOMAIN results :
                          results[j].warning = IF j = Len(results) /\ N - s <= 5
                                               THEN N - s - 1
                                               ELSE Absent
              /\ (pc[p] = "call" /\ run[p].tool_turns >= 1)
                 => LET results == TurnResults(h, run[p].tool_turns - 1)
                    IN \A j \in DOMAIN results :
                          results[j].warning # Absent
                          => results[j].warning = N - run[p].tool_turns

\* a run with budget 7: the turns at steps 0 and 1 carry no warning, the turn
\* at step 2 has three results and the last one carries the count 4
C25_Witness ==
    \E p \in Procs :
        /\ pc[p] = "call"
        /\ settings.max_iterations = WarnThreshold + 2
        /\ run[p].tool_turns = 3
        /\ LET h == heap[req[p].messages]
           IN /\ TurnResults(h, 0) # <<>>
              /\ TurnResults(h, 1) # <<>>
              /\ TurnResults(h, 1)[Len(TurnResults(h, 1))].warning = Absent
              /\ Len(TurnResults(h, 2)) = 3
              /\ TurnResults(h, 2)[1].warning = Absent
              /\ TurnResults(h, 2)[3].warning = 4

C27_QuotaPauseAfterEveryAttempt ==
    \A p \in Procs :
        /\ pc[p] = "quota" => (run[p].demand > 0 /\ run[p].wait = run[p].demand)
        /\ run[p].returned => (run[p].pauses = 1 <=> run[p].demand > 0)
        /\ pc[p] = "backoff" => (run[p].pauses >= 1 <=> run[p].demand > 0)

\* C28: the sleep before a retry lasts the seconds of the failed response's
\* retry-after header when it has one and 30 seconds when it has none, at
\* every attempt alike.
C28_RetryDelayIsHintOrDefault ==
    \A p \in Procs :
        pc[p] = "backoff"
        => run[p].wait = IF run[p].hint # Missing THEN run[p].hint ELSE 30

\* the fourth attempt failed without a hint and the call sleeps 30 seconds
C28_Witness ==
    \E p \in Procs :
        /\ pc[p] = "backoff"
        /\ run[p].attempt = MAX_RETRIES - 2
        /\ run[p].hint = Missing
        /\ run[p].wait = 30

\* the tasks asleep inside a model call: in a retry backoff or in a quota pause
Sleeping == { p \in Procs : pc[p] \in { "backoff", "quota" } }

\* C29: a run keeps its slot from its admission to its return or exception,
\* its backoff sleeps and quota pauses included: the free slots and the slots
\* handed to woken waiters are those that no run in progress holds, a
\* sleeping run leaves room for at most max_concurrency - 1 other runs, and a
\* slot becomes free or is handed on only in a step in which a run ends.
C29_SlotHeldThroughSleeps ==
    /\ [](/\ sem_value >= 0
          /\ sem_value + Cardinality(woken) = settings.max_concurrency - Cardinality(InProgress)
          /\ \A p \in Sleeping :
                Cardinality(InProgress \ { p }) <= settings.max_concurrency - 1)
    /\ [][ (sem_value' + Cardinality(woken') > sem_value + Cardinality(woken))
           => \E p \in Procs : pc[p] \in Running /\ pc'[p] \in Idle ]_vars

\* one task is in its backoff sleep and holds the only slot; the other waits
C29_Witness ==
    \E p, q \in Procs :
        /\ pc[p] = "backoff"
        /\ pc[q] = "wait"
        /\ q \notin woken
        /\ sem_value = 0
        /\ settings.max_concurrency = 1

C31_OverlappingAsksShareAndResetTheHistory ==
    [][ \A p, q \in Procs :
           ( /\ p # q
             /\ AskStep(q)
             /\ pc'[q] \notin Idle
             /\ req'[q].conversation_id # None
             /\ pc[p] \notin Idle
             /\ req[p].messages = histories[req'[q].conversation_id]
             /\ heap[req[p].messages][Len(heap[req[p].messages])].role = "user" )
           => /\ req'[q].messages = req[p].messages
              /\ heap'[req[p].messages] \in { << QuestionMsg(req'[q].question) >>,
                                              << QuestionMsg(req'[q].question), AnswerNowMsg >> }
              /\ \A i \in DOMAIN heap'[req[p].messages] :
                    heap'[req[p].messages][i] # QuestionMsg(req[p].question) ]_vars

\* both asks have returned an answer of their own run, the stored history
\* lacks the first question and holds two assistant messages in a row
C31_Witness ==
    \E p, q \in Procs :
        /\ p # q
        /\ pc[p] = "returned" /\ ~result[p].cached /\ req[p].conversation_id = "c1"
        /\ pc[q] = "returned" /\ ~result[q].cached /\ req[q].conversation_id = "c1"
        /\ ~Alternates(Stored("c1"))
        /\ \A i \in DOMAIN Stored("c1") : Stored("c1")[i] # QuestionMsg(req[p].question)

\* C32: in every state the conversations that have a history are the
\* conversations that have a last-access time, and no sweep fails on the
\* deletion of a history that does not exist.
C32_HistoriesAndLastAccessHoldTheSameIds ==
    /\ \A c \in ConvIds : (histories[c] # NoList) <=> (last_access[c] # Absent)
    /\ \A p \in Procs : result[p].status # "KeyError"

\* C33: the provider is invoked only for a tool whose schema was offered to
\* the model: a provider call is under way only for a name among the
\* schemas of get_tool_schemas, and the invocation of a hidden tool is
\* answered with the unknown-tool text.
C33_OnlyOfferedToolsAreDispatched ==
    \A p \in Procs :
        /\ pc[p] = "tool" => run[p].response.content[run[p].block].name \in ToolSchemas
        /\ \A i \in DOMAIN run[p].tool_results :
              LET uses == ToolUses(run[p].response.content)
              IN (i <= Len(uses) /\ uses[i].name \in ToolMap \ ToolSchemas)
                 => run[p].tool_results[i].content = "Error: unknown tool"

\* C34: whatever the cap, the history handed to the agent loop after the
\* validation and the truncation ends with the question that is being asked.
C34_HandedHistoryEndsWithTheQuestion ==
    \A p \in Procs :
        pc[p] \notin Idle
        => /\ req[p].handed # <<>>
           /\ req[p].handed[Len(req[p].handed)] = QuestionMsg(req[p].question)

\* C35: an ask that follows, on the same conversation, an ask whose run
\* raised keeps the exchanges the conversation had completed before: when the
\* stored history begins with a completed exchange, the history the next ask
\* validates still begins with it and is not reset to the new question alone.
C35_FailedAskKeepsEarlierContext ==
    [][ \A p \in Procs, c \in ConvIds :
           ( /\ AskStep(p)
             /\ pc'[p] \notin Idle
             /\ req'[p].conversation_id = c
             /\ outcome[c] = "raised"
             /\ Len(Stored(c)) >= 2
             /\ Stored(c)[1].role = "user"
             /\ Stored(c)[2].role = "assistant" /\ ~HasToolUse(Stored(c)[2]) )
           => /\ Len(req'[p].validated) >= 3
              /\ SubSeq(req'[p].validated, 1, 2) = SubSeq(Stored(c), 1, 2) ]_vars

\* task q starts an ask without a conversation id while the ask of task p,
\* without a conversation id and for the same normalized question, is under way
Overlaps(p, q) ==
    /\ p # q
    /\ AskStep(q)
    /\ req'[q].conversation_id = None
    /\ pc[p] \notin Idle
    /\ req[p].conversation_id = None
    /\ req[p].cache_key = CacheKey(req'[q].question)

\* the response cache holds an answer for the key that is within its TTL
Fresh(key) ==
    /\ response_cache[key] # NoEntry
    /\ now - response_cache[key].ts <= settings.response_cache_ttl

\* C36 as stated: of two asks without a conversation id and for the same
\* normalized question that overlap in time, the second one executes the
\* agent loop as well.
C36_OverlappingAsksBothRunTheLoop ==
    [][ \A p, q \in Procs : Overlaps(p, q) => pc'[q] \in { "call", "wait" } ]_vars

\* C36, amended: an ask under way puts nothing into the response cache, so
\* that an ask that overlaps it and finds no answer cached for the question
\* executes the agent loop as well; and every run of an ask without a
\* conversation id that returns an answer writes its answer and the time of
\* its return over the entry of the question, so that the entry is that of
\* the run that returned last.
C36_CacheServesOnlyCompletedAnswers ==
    /\ [][ \A p, q \in Procs :
              (Overlaps(p, q) /\ ~Fresh(req[p].cache_key))
              => /\ pc'[q] \in { "call", "wait" }
                 /\ response_cache'[req[p].cache_key] = NoEntry ]_vars
    /\ [][ \A p \in Procs :
              (pc[p] \in Running /\ pc'[p] = "returned" /\ req[p].conversation_id = None)
              => response_cache'[req[p].cache_key] = [answer |-> result'[p].answer, ts |-> now] ]_vars

\* both asks ran the agent loop, with different answers; the one that
\* returned last has its answer and its time in the cache, over the entry
\* the other one wrote before
C36_Witness ==
    \E p, q \in Procs :
        /\ p # q
        /\ pc[p] = "returned" /\ ~result[p].cached
        /\ pc[q] = "returned" /\ ~result[q].cached
        /\ req[p].cache_key = req[q].cache_key
        /\ result[p].answer # result[q].answer
        /\ last.question = req[q].question
        /\ now > 0
        /\ response_cache[req[q].cache_key] = [answer |-> result[q].answer, ts |-> now]

\* the dispatch of the tools of a response is under way
Dispatching == { "step", "tool" }

\* C37: every tool invocation of a response the loop accepted is dispatched
\* exactly once, and a retried model call dispatches nothing.  While a turn's
\* tools are dispatched the current block is a tool invocation without a
\* result and every invocation before it has its one result; the dispatch
\* begins only in the step in which the model call returns its response, with
\* the first invocation; it only moves forward in the response; the turn ends
\* with one result per invocation; a failed attempt and its backoff touch
\* neither the results nor the turns nor the history.
C37_ToolsDispatchedOncePerAcceptedResponse ==
    /\ [](\A p \in Procs :
             pc[p] \in Dispatching
             => LET content == run[p].response.content
                    b == run[p].block
                IN /\ b \in DOMAIN content
                   /\ content[b].type = "tool_use"
                   /\ ResultIds(run[p].tool_results) = ToolUseIds(SubSeq(content, 1, b - 1)))
    /\ [][ \A p \in Procs :
              /\ (pc[p] \notin Dispatching /\ pc'[p] \in Dispatching)
                 => /\ pc[p] \in { "call", "quota" }
                    /\ run'[p].returned
                    /\ run'[p].tool_calls = run[p].tool_calls + 1
                    /\ run'[p].tool_results = <<>>
                    /\ run'[p].block = NextToolUse(run'[p].response.content, 0)
              /\ (pc[p] \in Dispatching /\ pc'[p] \in Dispatching)
                 => /\ run'[p].response = run[p].response
                    /\ run'[p].block >= run[p].block
                    /\ (run'[p].block = run[p].block /\ RunStep(p))
                       => (pc[p] = "step" /\ pc'[p] = "tool")
              /\ (pc[p] \in Dispatching /\ pc'[p] = "call")
                 => /\ ResultIds(run'[p].tool_results) = ToolUseIds(run[p].response.content)
                    /\ run'[p].tool_turns = run[p].tool_turns + 1
              /\ (pc[p] \in { "call", "backoff" } /\ pc'[p] \in { "call", "backoff" }
                  /\ ~run'[p].returned)
                 => /\ run'[p].tool_results = Cur(p).tool_results
                    /\ run'[p].tool_turns = run[p].tool_turns
                    /\ run'[p].tool_calls = run[p].tool_calls
                    /\ heap'[req[p].messages] = heap[req[p].messages] ]_vars

\* a model call failed twice before it returned a response that asks for
\* three tools, and the first of them is about to be dispatched, once
C37_Witness ==
    \E p \in Procs :
        /\ pc[p] = "step"
        /\ run[p].returned
        /\ run[p].fails = 2
        /\ Len(ToolUseIds(run[p].response.content)) = 3
        /\ run[p].block = 2
        /\ run[p].tool_results = <<>>

\* C38: the fragments a model call returns, and on_text_chunk later gets,
\* are those of the attempt that succeeded: when the call has returned, its
\* fragments are the text deltas of the response it returned, whatever the
\* failed attempts before it had streamed; the fragments passed to
\* on_text_chunk are the first ones of that list, each one once; and when
\* the run returns, they are all of them, the text of the final response.
C38_FragmentsComeFromTheAttemptThatSucceeded ==
    /\ [](\A p \in Procs :
             /\ (run[p].returned \/ pc[p] = "flush")
                => run[p].text_chunks = TextChunks(run[p].response)
             /\ run[p].surfaced = SubSeq(run[p].text_chunks, 1, Len(run[p].surfaced)))
    /\ [][ \A p \in Procs :
              (pc[p] = "flush" /\ pc'[p] = "returned")
              => /\ run[p].surfaced = TextChunks(run[p].response)
                 /\ result'[p].answer = run[p].surfaced ]_vars

\* an attempt broke after it had streamed a fragment, the next one returned
\* a response of two text blocks, and the first of its fragments was passed on
C38_Witness ==
    \E p \in Procs :
        /\ pc[p] = "flush"
        /\ run[p].fails >= 1
        /\ run[p].error = "OverloadedError"
        /\ PartialChunks(run[p].error) # <<>>
        /\ run[p].text_chunks = << "x", "y" >>
        /\ run[p].surfaced = << "x" >>

\* C39: no tool-result text in a history is longer than the maximum
\* tool-result size: a longer provider result is cut before it is appended.
C39_ToolResultsWithinTheSizeLimit ==
    \A l \in ListIds : \A i \in DOMAIN heap[l] :
        (heap[l][i].role = "user" /\ heap[l][i].kind = "list")
        => \A j \in DOMAIN heap[l][i].content :
              Len(heap[l][i].content[j].content) <= MaxToolResultSize

====
